---- MODULE Spec2Model ----
(***************************************************************************)
(* A model of the stack tree of `st` (src/src/tree.rs): the multi-trunk,   *)
(* name-keyed tree of tracked branches and its public mutations.           *)
(*                                                                         *)
(* Rust values are represented as follows.                                 *)
(*   HashMap<String, V>   a function whose DOMAIN is the set of keys       *)
(*   HashSet<String>      a set of strings                                 *)
(*   Option<String>       a string, None being the string "None"           *)
(*   Option<struct>       a sequence: << >> for None, <<v>> for Some(v)    *)
(*   StResult<()>         a record [result, err]                           *)
(***************************************************************************)
EXTENDS Integers, Sequences, FiniteSets, TLC

VARIABLES
    active_trunk,   \* StackTree.active_trunk
    trunks,         \* StackTree.trunks
    legacy,         \* StackTree.trunk_name and StackTree.branches (legacy fields)
    last,           \* the last public call made on the tree and its outcome
    prev,           \* the tree as it was before that call
    ops,            \* number of calls made so far
    run             \* the submit run in progress, if any

vars == <<active_trunk, trunks, legacy, last, prev, ops, run>>

-----------------------------------------------------------------------------
(* Bounds of the model. *)

MaxNames == 3     \* branch names in use
MaxOps == 4       \* calls made on one tree
MaxLoads == 2     \* migrations and reloads of one deserialized tree
MaxCmds == 4          \* trunk commands run one after another
MaxRestackOps == 4    \* calls that built the tree restack is run on
MaxRestackRuns == 2   \* restack runs in a row
MaxResubmitOps == 2   \* calls that built the tree submit is invoked on repeatedly
MaxRuns == 2          \* invocations of submit in a row
MaxSubmitOps == 3 \* calls that built the tree a submit run starts on

NamePool == <<"main", "f1", "f2", "dev", "f3", "f4">>

\* Branch names, parent commit ids and pull request numbers the calls draw
\* their arguments from.  The tree treats names uniformly, so new() is given
\* the first name only.
Names == {NamePool[i] : i \in 1..MaxNames}
InitTrunks == {NamePool[1]}
Oids == {"abc123", "def456"}
PrNumbers == {42}

None == "None"
NoRemote == << >>

-----------------------------------------------------------------------------
(* HashMap and HashSet helpers. *)

\* HashMap::insert: add or replace the value stored under key k.
MapInsert(m, k, v) == [x \in DOMAIN m \cup {k} |-> IF x = k THEN v ELSE m[x]]

\* HashMap::remove: drop key k.
MapRemove(m, k) == [x \in DOMAIN m \ {k} |-> m[x]]

\* The orders in which iterating a HashSet can yield its elements.
IterOrders(S) ==
    {q \in [1..Cardinality(S) -> S] : \A i, j \in DOMAIN q : i # j => q[i] # q[j]}

-----------------------------------------------------------------------------
(* TrackedBranch and RemoteMetadata. *)

\* RemoteMetadata::new
RemoteMetadataNew(pr_number) == [pr_number |-> pr_number, comment_id |-> << >>]

\* TrackedBranch::new: children and remote take their Default values.
TrackedBranchNew(branch_name, parent, parent_oid_cache) ==
    [name |-> branch_name,
     parent_oid_cache |-> parent_oid_cache,
     parent |-> parent,
     children |-> {},
     remote |-> NoRemote]

-----------------------------------------------------------------------------
(* StackTree.  A tree value is a record [active_trunk, trunks]; an         *)
(* operation that can fail returns [tree, result, err].                    *)

Ok(t) == [tree |-> t, result |-> "Ok", err |-> None]
Err(t, kind, arg) == [tree |-> t, result |-> kind, err |-> arg]

\* expect("Active trunk must exist") failing in active_branches_mut.
Panic(t) == [tree |-> t, result |-> "Panic", err |-> "Active trunk must exist"]

\* StackTree::default
TreeDefault == [active_trunk |-> "", trunks |-> << >>]

\* The legacy fields trunk_name and branches of StackTree::default.
LegacyDefault == [trunk_name |-> None, branches |-> << >>]

\* No submit run.
NoRun == [pc |-> "idle"]

\* add_trunk without its contains_key check: an existing trunk is replaced.
add_trunk_unchecked(t, trunk_name) ==
    [t EXCEPT !.trunks =
        MapInsert(@, trunk_name,
            [name |-> trunk_name,
             branches |-> MapInsert(<< >>, trunk_name,
                              TrackedBranchNew(trunk_name, None, None))])]

\* StackTree::add_trunk
add_trunk(t, trunk_name) ==
    IF trunk_name \notin DOMAIN t.trunks
    THEN [t EXCEPT !.trunks =
            MapInsert(@, trunk_name,
                [name |-> trunk_name,
                 branches |-> MapInsert(<< >>, trunk_name,
                                  TrackedBranchNew(trunk_name, None, None))])]
    ELSE t

\* StackTree::new
tree_new(trunk_name) ==
    [add_trunk(TreeDefault, trunk_name) EXCEPT !.active_trunk = trunk_name]

\* switch_trunk without its contains_key check.
switch_trunk_unchecked(t, trunk_name) ==
    Ok([t EXCEPT !.active_trunk = trunk_name])

\* StackTree::switch_trunk
switch_trunk(t, trunk_name) ==
    IF trunk_name \notin DOMAIN t.trunks
    THEN Err(t, "BranchNotTracked", trunk_name)
    ELSE Ok([t EXCEPT !.active_trunk = trunk_name])

\* remove_trunk without its check that the trunk is not the active one.
remove_trunk_active_unchecked(t, trunk_name) ==
    IF trunk_name \notin DOMAIN t.trunks
    THEN Err(t, "BranchNotTracked", trunk_name)
    ELSE Ok([t EXCEPT !.trunks = MapRemove(@, trunk_name)])

\* StackTree::remove_trunk
remove_trunk(t, trunk_name) ==
    IF trunk_name = t.active_trunk
    THEN Err(t, "BranchNotTracked", "Cannot remove active trunk")
    ELSE IF trunk_name \notin DOMAIN t.trunks
    THEN Err(t, "BranchNotTracked", trunk_name)
    ELSE Ok([t EXCEPT !.trunks = MapRemove(@, trunk_name)])

\* StackTree::trunk_name
trunk_name(t) == t.active_trunk

\* StackTree::active_branches: the active trunk's map, or the empty map.
active_branches(t) ==
    IF t.active_trunk \in DOMAIN t.trunks
    THEN t.trunks[t.active_trunk].branches
    ELSE << >>

\* A write that lands in every trunk's map instead of the active one's.
WithAllBranches(t, branches) ==
    [t EXCEPT !.trunks = [tn \in DOMAIN @ |-> [@[tn] EXCEPT !.branches = branches]]]

\* Writing back through the reference active_branches_mut returns.
WithActiveBranches(t, branches) ==
    [t EXCEPT !.trunks[t.active_trunk].branches = branches]

\* StackTree::get: << >> for None, <<branch>> for Some(branch).
get(t, branch_name) ==
    IF branch_name \in DOMAIN active_branches(t)
    THEN <<active_branches(t)[branch_name]>>
    ELSE << >>

\* StackTree::insert
insert(t, parent_name, parent_oid_cache, branch_name) ==
    IF t.active_trunk \notin DOMAIN t.trunks THEN Panic(t)
    ELSE
    LET branches == t.trunks[t.active_trunk].branches IN
    IF parent_name \notin DOMAIN branches
    THEN Err(t, "BranchNotTracked", parent_name)
    ELSE
    LET registered == [branches EXCEPT ![parent_name].children = @ \cup {branch_name}]
        child == TrackedBranchNew(branch_name, parent_name, parent_oid_cache)
    IN  Ok(WithActiveBranches(t, MapInsert(registered, branch_name, child)))

\* The re-link loop of delete, were it to drop the cached parent id of each
\* child it moves.
RECURSIVE RelinkChildrenDropsCache(_, _, _, _)
RelinkChildrenDropsCache(branches, parent_name, order, i) ==
    IF i > Len(order)
    THEN [branches |-> branches, result |-> "Ok", err |-> None]
    ELSE
    LET child_name == order[i] IN
    IF child_name \notin DOMAIN branches
    THEN [branches |-> branches, result |-> "BranchNotTracked", err |-> child_name]
    ELSE
    LET repointed == [branches EXCEPT ![child_name].parent = parent_name,
                                      ![child_name].parent_oid_cache = None] IN
    IF parent_name \notin DOMAIN repointed
    THEN [branches |-> repointed, result |-> "BranchNotTracked", err |-> parent_name]
    ELSE RelinkChildrenDropsCache(
            [repointed EXCEPT ![parent_name].children = @ \cup {child_name}],
            parent_name, order, i + 1)

\* The loop of StackTree::delete that re-links the children of the deleted
\* branch to its parent, run over the children in the order `order` from
\* position i on.  Returns [branches, result, err].
RECURSIVE RelinkChildren(_, _, _, _)
RelinkChildren(branches, parent_name, order, i) ==
    IF i > Len(order)
    THEN [branches |-> branches, result |-> "Ok", err |-> None]
    ELSE
    LET child_name == order[i] IN
    IF child_name \notin DOMAIN branches
    THEN [branches |-> branches, result |-> "BranchNotTracked", err |-> child_name]
    ELSE
    LET repointed == [branches EXCEPT ![child_name].parent = parent_name] IN
    IF parent_name \notin DOMAIN repointed
    THEN [branches |-> repointed, result |-> "BranchNotTracked", err |-> parent_name]
    ELSE RelinkChildren(
            [repointed EXCEPT ![parent_name].children = @ \cup {child_name}],
            parent_name, order, i + 1)

\* StackTree::delete; `order` is the order in which the deleted branch's
\* children set is iterated.
delete(t, branch_name, order) ==
    IF t.active_trunk \notin DOMAIN t.trunks THEN Panic(t)
    ELSE
    LET branches == t.trunks[t.active_trunk].branches IN
    IF branch_name \notin DOMAIN branches
    THEN Err(t, "BranchNotTracked", branch_name)
    ELSE
    LET branch == branches[branch_name]
        removed == MapRemove(branches, branch_name)
    IN
    IF branch.parent = None
    THEN Ok(WithActiveBranches(t, removed))
    ELSE IF branch.parent \notin DOMAIN removed
    THEN Err(WithActiveBranches(t, removed), "BranchNotTracked", branch.parent)
    ELSE
    LET unlinked == [removed EXCEPT ![branch.parent].children = @ \ {branch_name}]
        relinked == RelinkChildren(unlinked, branch.parent, order, 1)
    IN  [tree |-> WithActiveBranches(t, relinked.branches),
         result |-> relinked.result,
         err |-> relinked.err]

\* The orders in which delete may iterate the children of branch_name.
DeleteOrders(t, branch_name) ==
    IF branch_name \in DOMAIN active_branches(t)
    THEN IterOrders(active_branches(t)[branch_name].children)
    ELSE {<< >>}

\* get_mut(branch).remote = Some(RemoteMetadata::new(pr_number)), as the
\* submit loop does for a branch that has no pull request yet.
set_remote(t, branch_name, pr_number) ==
    IF t.active_trunk \notin DOMAIN t.trunks THEN Panic(t)
    ELSE
    LET branches == t.trunks[t.active_trunk].branches IN
    IF branch_name \notin DOMAIN branches
    THEN Err(t, "BranchNotTracked", branch_name)
    ELSE Ok(WithActiveBranches(t,
            [branches EXCEPT ![branch_name].remote = <<RemoteMetadataNew(pr_number)>>]))

\* One iteration order for the children set of every entry of the map bs:
\* an unmodified HashSet yields the same order each time it is iterated.
RECURSIVE OrdersOver(_, _)
OrdersOver(bs, D) ==
    IF D = {} THEN {<< >>}
    ELSE LET b == CHOOSE x \in D : TRUE IN
         {MapInsert(f, b, q) :
             f \in OrdersOver(bs, D \ {b}), q \in IterOrders(bs[b].children)}

ChildOrders(bs) == OrdersOver(bs, DOMAIN bs)

\* StackTree::fill_branches and its try_for_each over the children, which
\* stops at the first error.  Both return [names, result, err].  `depth` is
\* the number of nested calls still allowed: a descent deeper than the number
\* of entries revisits an entry and so never returns (the stack overflows).
RECURSIVE fill_branches(_, _, _, _, _)
RECURSIVE FillEach(_, _, _, _, _, _)
fill_branches(bs, name, branch_names, ord, depth) ==
    IF name \notin DOMAIN bs
    THEN [names |-> branch_names, result |-> "BranchNotTracked", err |-> name]
    ELSE IF depth = 0
    THEN [names |-> branch_names, result |-> "StackOverflow", err |-> name]
    ELSE FillEach(bs, ord[name], 1, Append(branch_names, bs[name].name), ord, depth - 1)

FillEach(bs, children, i, branch_names, ord, depth) ==
    IF i > Len(children)
    THEN [names |-> branch_names, result |-> "Ok", err |-> None]
    ELSE LET r == fill_branches(bs, children[i], branch_names, ord, depth) IN
         IF r.result # "Ok" THEN r
         ELSE FillEach(bs, children, i + 1, r.names, ord, depth)

\* StackTree::branches, the children sets being iterated in the orders ord.
branches(t, ord) ==
    fill_branches(active_branches(t), trunk_name(t), << >>, ord,
                  Cardinality(DOMAIN active_branches(t)))

\* Every outcome branches() can have on tree t.
BranchesResults(t) == {branches(t, ord) : ord \in ChildOrders(active_branches(t))}

-----------------------------------------------------------------------------
(* Legacy migration and the serialized form.  Here a tree value carries all *)
(* four fields of StackTree: [active_trunk, trunk_name, trunks, branches].  *)

\* migrate_if_needed, were it to leave the legacy fields in place.
migrate_keeps_legacy(ft) ==
    IF ft.trunk_name # None /\ ft.branches # << >>
    THEN [ft EXCEPT
            !.trunks = MapInsert(@, ft.trunk_name,
                          [name |-> ft.trunk_name, branches |-> ft.branches[1]]),
            !.active_trunk = ft.trunk_name]
    ELSE ft

\* migrate_if_needed, were it to forget to select the migrated trunk.
migrate_keeps_active(ft) ==
    LET taken == [ft EXCEPT !.trunk_name = None, !.branches = << >>] IN
    IF ft.trunk_name # None /\ ft.branches # << >>
    THEN [taken EXCEPT
            !.trunks = MapInsert(@, ft.trunk_name,
                          [name |-> ft.trunk_name, branches |-> ft.branches[1]])]
    ELSE taken

\* StackTree::migrate_if_needed.  Both take() calls run before the pattern is
\* matched, so both legacy fields end up None whether or not it matches.
migrate_if_needed(ft) ==
    LET taken == [ft EXCEPT !.trunk_name = None, !.branches = << >>] IN
    IF ft.trunk_name # None /\ ft.branches # << >>
    THEN [taken EXCEPT
            !.trunks = MapInsert(@, ft.trunk_name,
                          [name |-> ft.trunk_name, branches |-> ft.branches[1]]),
            !.active_trunk = ft.trunk_name]
    ELSE taken

\* A serialized document: a function from the keys present to their values.
\* DocPut adds key k unless the value is absent (skip_serializing_if).
DocPut(d, k, present, v) == IF present THEN MapInsert(d, k, v) ELSE d

\* Serialize for RemoteMetadata (kebab-case keys; an absent comment id is
\* left out).
save_remote(r) ==
    DocPut(MapInsert(<< >>, "pr-number", r.pr_number),
           "comment-id", r.comment_id # << >>, r.comment_id)

\* Deserialize for RemoteMetadata.
load_remote(d) ==
    [pr_number |-> d["pr-number"],
     comment_id |-> IF "comment-id" \in DOMAIN d THEN d["comment-id"] ELSE << >>]

\* Serialize for TrackedBranch.
save_branch(b) ==
    LET d1 == MapInsert(MapInsert(<< >>, "name", b.name), "children", b.children)
        d2 == DocPut(d1, "parent-oid-cache", b.parent_oid_cache # None, b.parent_oid_cache)
        d3 == DocPut(d2, "parent", b.parent # None, b.parent)
    IN  DocPut(d3, "remote", b.remote # NoRemote,
               IF b.remote # NoRemote THEN save_remote(b.remote[1]) ELSE << >>)

\* Deserialize for TrackedBranch: a missing Option field reads as None.
load_branch(d) ==
    [name |-> d["name"],
     parent_oid_cache |->
        IF "parent-oid-cache" \in DOMAIN d THEN d["parent-oid-cache"] ELSE None,
     parent |-> IF "parent" \in DOMAIN d THEN d["parent"] ELSE None,
     children |-> d["children"],
     remote |-> IF "remote" \in DOMAIN d THEN <<load_remote(d["remote"])>> ELSE NoRemote]

\* Serialize / Deserialize for a map of tracked branches.
save_branches(bs) == [b \in DOMAIN bs |-> save_branch(bs[b])]
load_branches(d) == [b \in DOMAIN d |-> load_branch(d[b])]

\* Serialize for StackTree and TrunkBranches.
save(ft) ==
    LET d1 == MapInsert(<< >>, "active-trunk", ft.active_trunk)
        d2 == DocPut(d1, "trunk-name", ft.trunk_name # None, ft.trunk_name)
        d3 == MapInsert(d2, "trunks",
                [tn \in DOMAIN ft.trunks |->
                    [name |-> ft.trunks[tn].name,
                     branches |-> save_branches(ft.trunks[tn].branches)]])
    IN  DocPut(d3, "branches", ft.branches # << >>,
               IF ft.branches # << >> THEN save_branches(ft.branches[1]) ELSE << >>)

\* Deserialize for StackTree: active-trunk and trunks take their defaults
\* when missing, the legacy fields read as None.
load(d) ==
    [active_trunk |-> IF "active-trunk" \in DOMAIN d THEN d["active-trunk"] ELSE "",
     trunk_name |-> IF "trunk-name" \in DOMAIN d THEN d["trunk-name"] ELSE None,
     trunks |->
        IF "trunks" \in DOMAIN d
        THEN [tn \in DOMAIN d["trunks"] |->
                [name |-> d["trunks"][tn].name,
                 branches |-> load_branches(d["trunks"][tn].branches)]]
        ELSE << >>,
     branches |->
        IF "branches" \in DOMAIN d THEN <<load_branches(d["branches"])>> ELSE << >>]

\* The store's load: deserialize, then migrate.
store_load(d) == migrate_if_needed(load(d))

-----------------------------------------------------------------------------
(* The state machine: any sequence of public calls on a tree built by new. *)

Tree == [active_trunk |-> active_trunk, trunks |-> trunks]

Call(op, a1, a2, a3) == [op |-> op, a1 |-> a1, a2 |-> a2, a3 |-> a3]

\* Record a call, its outcome and the tree before it; install the new tree.
Apply(call, out) ==
    /\ ops < MaxOps
    /\ active_trunk' = out.tree.active_trunk
    /\ trunks' = out.tree.trunks
    /\ last' = [call |-> call, result |-> out.result, err |-> out.err]
    /\ prev' = Tree
    /\ ops' = ops + 1
    /\ UNCHANGED <<legacy, run>>

Init ==
    \E t \in InitTrunks :
        /\ active_trunk = tree_new(t).active_trunk
        /\ trunks = tree_new(t).trunks
        /\ last = [call |-> Call("new", t, None, None), result |-> "Ok", err |-> None]
        /\ prev = TreeDefault
        /\ ops = 0
        /\ legacy = LegacyDefault
        /\ run = NoRun

AddTrunk ==
    \E t \in Names :
        Apply(Call("add_trunk", t, None, None), Ok(add_trunk(Tree, t)))

SwitchTrunk ==
    \E t \in Names :
        Apply(Call("switch_trunk", t, None, None), switch_trunk(Tree, t))

RemoveTrunk ==
    \E t \in Names :
        Apply(Call("remove_trunk", t, None, None), remove_trunk(Tree, t))

Insert ==
    \E p \in Names, o \in Oids, n \in Names :
        Apply(Call("insert", p, o, n), insert(Tree, p, o, n))

Delete ==
    \E n \in Names :
        \E order \in DeleteOrders(Tree, n) :
            Apply(Call("delete", n, None, None), delete(Tree, n, order))

SetRemote ==
    \E n \in Names, pr \in PrNumbers :
        /\ get(Tree, n) # << >>
        /\ get(Tree, n)[1].remote = NoRemote
        /\ Apply(Call("set_remote", n, None, None), set_remote(Tree, n, pr))

Next ==
    \/ AddTrunk
    \/ SwitchTrunk
    \/ RemoveTrunk
    \/ Insert
    \/ Delete
    \/ SetRemote

Spec == Init /\ [][Next]_vars

-----------------------------------------------------------------------------
(* The state machine of loading: a deserialized tree, with or without the   *)
(* legacy fields, is migrated, and may be saved and loaded again.           *)

FullTree ==
    [active_trunk |-> active_trunk, trunk_name |-> legacy.trunk_name,
     trunks |-> trunks, branches |-> legacy.branches]

\* Trees to take trunk maps and legacy branch maps from.
SampleTrees ==
    LET roots == {tree_new(t) : t \in Names} IN
    roots
    \cup {insert(r, r.active_trunk, o, n).tree :
            r \in roots, o \in Oids, n \in Names}
    \cup {add_trunk(r, t) : r \in roots, t \in Names}
    \cup {set_remote(insert(r, r.active_trunk, o, n).tree, n, pr).tree :
            r \in roots, o \in Oids, n \in Names, pr \in PrNumbers}

ApplyLoad(call, ft) ==
    /\ ops < MaxLoads
    /\ active_trunk' = ft.active_trunk
    /\ trunks' = ft.trunks
    /\ legacy' = [trunk_name |-> ft.trunk_name, branches |-> ft.branches]
    /\ last' = [call |-> call, result |-> "Ok", err |-> None]
    /\ prev' = FullTree
    /\ ops' = ops + 1
    /\ UNCHANGED run

MigrateInit ==
    /\ active_trunk \in {""} \cup Names
    /\ trunks \in {<< >>} \cup {x.trunks : x \in SampleTrees}
    /\ \E tn \in {None} \cup Names,
          bs \in {<< >>} \cup {<<active_branches(x)>> : x \in SampleTrees} :
           legacy = [trunk_name |-> tn, branches |-> bs]
    /\ last = [call |-> Call("deserialize", None, None, None),
               result |-> "Ok", err |-> None]
    /\ prev = [active_trunk |-> "", trunk_name |-> None,
               trunks |-> << >>, branches |-> << >>]
    /\ ops = 0
    /\ run = NoRun

Migrate ==
    ApplyLoad(Call("migrate_if_needed", None, None, None), migrate_if_needed(FullTree))

SaveReload ==
    ApplyLoad(Call("save_reload", None, None, None), store_load(save(FullTree)))

MigrateNext ==
    \/ Migrate
    \/ SaveReload

MigrateSpec == MigrateInit /\ [][MigrateNext]_vars

-----------------------------------------------------------------------------
(* Vocabulary of the properties. *)

\* The branch map of trunk tn in tree t.
BranchesOf(t, tn) == t.trunks[tn].branches

\* The active trunk's map before and after the last call.
PrevBranches == active_branches(prev)
CurBranches == active_branches(Tree)

LastIs(op) == last.call.op = op

\* Following `parent` from b in map bs ends, within n steps, at an entry
\* without parent, and that entry is the one keyed by root.
RECURSIVE ReachesRoot(_, _, _, _)
ReachesRoot(bs, root, b, n) ==
    /\ b \in DOMAIN bs
    /\ IF bs[b].parent = None
       THEN b = root
       ELSE n > 0 /\ ReachesRoot(bs, root, bs[b].parent, n - 1)

-----------------------------------------------------------------------------
(* Invariants of the data model. *)

\* C1 (closure): in every trunk's map, every entry b with parent p has p in
\* the same map and b.name in p.children.
C1_Closure ==
    \A tn \in DOMAIN trunks :
        LET bs == BranchesOf(Tree, tn) IN
        \A b \in DOMAIN bs :
            bs[b].parent # None =>
                /\ bs[b].parent \in DOMAIN bs
                /\ bs[b].name \in bs[bs[b].parent].children

\* C2 (acyclicity): from every tracked branch, following `parent` reaches the
\* trunk's root entry in finitely many steps.
C2_Acyclic ==
    \A tn \in DOMAIN trunks :
        LET bs == BranchesOf(Tree, tn) IN
        \A b \in DOMAIN bs :
            ReachesRoot(bs, trunks[tn].name, b, Cardinality(DOMAIN bs))

\* C3 (uniqueness): no branch name is a key of two trunks' maps, and no
\* trunk name is tracked with a parent in any trunk's map.
C3_Unique ==
    /\ \A t1, t2 \in DOMAIN trunks :
           t1 # t2 => DOMAIN BranchesOf(Tree, t1) \cap DOMAIN BranchesOf(Tree, t2) = {}
    /\ \A t1, t2 \in DOMAIN trunks :
           t2 \in DOMAIN BranchesOf(Tree, t1) => BranchesOf(Tree, t1)[t2].parent = None

\* C4 (root): in every trunk's map an entry has no parent exactly when it is
\* named as the trunk, and the trunk's root entry is present under its own
\* key without a cached parent id.
C4_Root ==
    \A tn \in DOMAIN trunks :
        LET bs == BranchesOf(Tree, tn) IN
        /\ \A b \in DOMAIN bs : (bs[b].parent = None) <=> (bs[b].name = trunks[tn].name)
        /\ trunks[tn].name \in DOMAIN bs
        /\ bs[trunks[tn].name].name = trunks[tn].name
        /\ bs[trunks[tn].name].parent_oid_cache = None

\* C5 (cache validity): every entry of every trunk has parent_oid_cache
\* absent if and only if parent is absent.
C5_CacheValid ==
    \A tn \in DOMAIN trunks :
        LET bs == BranchesOf(Tree, tn) IN
        \A b \in DOMAIN bs : (bs[b].parent_oid_cache = None) <=> (bs[b].parent = None)

\* C5 witness: a delete has just moved a child of the deleted branch to the
\* deleted branch's parent, and the child still carries a cached id.
C5_Witness ==
    /\ LastIs("delete")
    /\ last.result = "Ok"
    /\ last.call.a1 \in DOMAIN PrevBranches
    /\ \E c \in PrevBranches[last.call.a1].children :
           /\ c \in DOMAIN PrevBranches
           /\ c \in DOMAIN CurBranches
           /\ PrevBranches[c].parent = last.call.a1
           /\ CurBranches[c].parent = PrevBranches[last.call.a1].parent
           /\ CurBranches[c].parent \notin {None, last.call.a1}
           /\ CurBranches[c].parent_oid_cache \in Oids

\* C6 (active trunk present): active_trunk is a key of trunks, and no call
\* has hit the "Active trunk must exist" expectation.
C6_ActiveTrunkPresent ==
    /\ active_trunk \in DOMAIN trunks
    /\ last.result # "Panic"

\* C6 witness: the trunk the tree was created with has been removed after a
\* switch to another trunk.
C6_Witness ==
    /\ LastIs("remove_trunk")
    /\ last.result = "Ok"
    /\ last.call.a1 \in InitTrunks
    /\ last.call.a1 \notin DOMAIN trunks
    /\ active_trunk \in DOMAIN trunks

-----------------------------------------------------------------------------
(* Contracts of insert and delete. *)

\* C7 (duplicate insertion): insert of a name that is already an entry of
\* the active trunk, under a tracked parent, fails with
\* BranchAlreadyTracked(name) and leaves the whole tree as it was.
C7_DuplicateInsertFails ==
    (/\ LastIs("insert")
     /\ last.call.a1 \in DOMAIN PrevBranches
     /\ last.call.a3 \in DOMAIN PrevBranches)
    => /\ last.result = "BranchAlreadyTracked"
       /\ last.err = last.call.a3
       /\ Tree = prev

\* C8 (trunk deletion): delete of the active trunk's own name is rejected
\* with CannotDeleteTrunkBranch and the root entry stays in the map.
C8_DeleteTrunkRejected ==
    (/\ LastIs("delete")
     /\ last.call.a1 = prev.active_trunk)
    => /\ last.result = "CannotDeleteTrunkBranch"
       /\ get(Tree, prev.active_trunk) # << >>

\* C9 (re-parent on delete): delete of a tracked non-trunk branch with
\* parent p removes it from the map and from p.children, gives every former
\* child the parent p and adds it to p.children, and changes no other
\* entry's parent or children.
C9_DeleteReparents ==
    (/\ LastIs("delete")
     /\ last.call.a1 \in DOMAIN PrevBranches
     /\ last.call.a1 # prev.active_trunk
     /\ PrevBranches[last.call.a1].parent # None)
    => LET name == last.call.a1
           p == PrevBranches[name].parent
           kids == PrevBranches[name].children
       IN  /\ DOMAIN CurBranches = DOMAIN PrevBranches \ {name}
           /\ p \in DOMAIN CurBranches
           /\ CurBranches[p].children = (PrevBranches[p].children \ {name}) \cup kids
           /\ \A c \in kids : c \in DOMAIN CurBranches /\ CurBranches[c].parent = p
           /\ \A e \in DOMAIN CurBranches :
                  /\ e \notin kids => CurBranches[e].parent = PrevBranches[e].parent
                  /\ e # p => CurBranches[e].children = PrevBranches[e].children

\* C10 (insert): with the parent tracked in the active trunk insert succeeds,
\* the new entry has that parent, the given cached id, no children and no
\* remote, and the parent's children contain the name; with the parent
\* untracked it fails with BranchNotTracked(parent) and the tree is unchanged.
C10_InsertContract ==
    LastIs("insert") =>
        LET p == last.call.a1
            oid == last.call.a2
            name == last.call.a3
        IN  IF p \in DOMAIN PrevBranches
            THEN /\ last.result = "Ok"
                 /\ get(Tree, name) = <<TrackedBranchNew(name, p, oid)>>
                 /\ get(Tree, p) # << >>
                 /\ name \in get(Tree, p)[1].children
            ELSE /\ last.result = "BranchNotTracked"
                 /\ last.err = p
                 /\ Tree = prev

-----------------------------------------------------------------------------
(* branches(). *)

\* The names of a sequence.
Range(q) == {q[i] : i \in DOMAIN q}

\* In the list q every branch of map bs that has a parent comes after it.
ParentsFirst(bs, q) ==
    \A i \in DOMAIN q :
        (q[i] \in DOMAIN bs /\ bs[q[i]].parent # None)
            => \E j \in 1..(i - 1) : q[j] = bs[q[i]].parent

\* C11 (branches): on every reachable tree branches() returns a list that
\* starts with the active trunk, holds every name of the active trunk's map
\* exactly once and nothing else, and has every parent before its children.
C11_BranchesLinearizes ==
    \A r \in BranchesResults(Tree) :
        /\ r.result = "Ok"
        /\ Len(r.names) >= 1
        /\ r.names[1] = active_trunk
        /\ Range(r.names) = DOMAIN CurBranches
        /\ Len(r.names) = Cardinality(DOMAIN CurBranches)
        /\ ParentsFirst(CurBranches, r.names)

\* C12 (delete of an internal node): after delete(n) of a tracked non-trunk
\* branch n that has a child, branches() returns exactly the names it
\* returned before the delete, minus n, each once and parents first.
C12_DeleteInternalKeepsList ==
    (/\ LastIs("delete")
     /\ last.call.a1 \in DOMAIN PrevBranches
     /\ last.call.a1 # prev.active_trunk
     /\ PrevBranches[last.call.a1].parent # None
     /\ PrevBranches[last.call.a1].children # {})
    => \A before \in BranchesResults(prev), after \in BranchesResults(Tree) :
           before.result = "Ok" =>
               /\ after.result = "Ok"
               /\ Range(after.names) = Range(before.names) \ {last.call.a1}
               /\ Len(after.names) = Len(before.names) - 1
               /\ ParentsFirst(CurBranches, after.names)

\* C13 (insert then delete): inserting a name the active trunk does not track
\* under a tracked parent and then deleting it gives back the tree as it was.
C13_InsertDeleteRestores ==
    \A p \in DOMAIN CurBranches, n \in Names \ DOMAIN CurBranches, oid \in Oids :
        LET inserted == insert(Tree, p, oid, n) IN
        /\ inserted.result = "Ok"
        /\ \A order \in DeleteOrders(inserted.tree, n) :
               LET deleted == delete(inserted.tree, n, order) IN
               /\ deleted.result = "Ok"
               /\ deleted.tree = Tree

-----------------------------------------------------------------------------
(* Trunks. *)

\* Tree t as seen once trunk b has been made the active one.
SwitchedTo(t, b) == switch_trunk(t, b).tree

C15_RemoveTrunkContract ==
    LastIs("remove_trunk") =>
        LET t == last.call.a1 IN
        IF t = prev.active_trunk \/ t \notin DOMAIN prev.trunks
        THEN /\ last.result = "BranchNotTracked"
             /\ Tree = prev
        ELSE /\ last.result = "Ok"
             /\ active_trunk = prev.active_trunk
             /\ DOMAIN trunks = DOMAIN prev.trunks \ {t}
             /\ \A b \in DOMAIN trunks : trunks[b] = prev.trunks[b]

\* C15 witness: a trunk that tracked a branch besides its root was removed.
C15_Witness ==
    /\ LastIs("remove_trunk")
    /\ last.result = "Ok"
    /\ Cardinality(DOMAIN BranchesOf(prev, last.call.a1)) > 1
    /\ last.call.a1 \notin DOMAIN trunks

\* C16 (add_trunk): add_trunk never changes active_trunk; on an existing
\* trunk it changes nothing; otherwise it adds the trunk with a map holding
\* only its root entry; a second add_trunk of the same name changes nothing.
C16_AddTrunkIdempotent ==
    LastIs("add_trunk") =>
        LET t == last.call.a1 IN
        /\ active_trunk = prev.active_trunk
        /\ IF t \in DOMAIN prev.trunks
           THEN Tree = prev
           ELSE /\ DOMAIN trunks = DOMAIN prev.trunks \cup {t}
                /\ \A b \in DOMAIN prev.trunks : trunks[b] = prev.trunks[b]
                /\ trunks[t].name = t
                /\ DOMAIN trunks[t].branches = {t}
                /\ trunks[t].branches[t] =
                       [name |-> t, parent_oid_cache |-> None, parent |-> None,
                        children |-> {}, remote |-> NoRemote]
        /\ add_trunk(Tree, t) = Tree

\* C16 witness: add_trunk was called on a trunk that already tracks a branch
\* besides its root.
C16_Witness ==
    /\ LastIs("add_trunk")
    /\ last.call.a1 \in DOMAIN prev.trunks
    /\ Cardinality(DOMAIN BranchesOf(prev, last.call.a1)) > 1

\* C17 (switch_trunk): on a trunk name it sets active_trunk and changes
\* nothing else; on any other name it fails with BranchNotTracked and
\* changes nothing.
C17_SwitchTrunkContract ==
    LastIs("switch_trunk") =>
        LET t == last.call.a1 IN
        /\ trunks = prev.trunks
        /\ IF t \in DOMAIN prev.trunks
           THEN last.result = "Ok" /\ active_trunk = t
           ELSE last.result = "BranchNotTracked" /\ active_trunk = prev.active_trunk

\* C17 witness: a switch to a name that is no trunk has failed after an
\* earlier switch moved the active trunk away from the first one.
C17_Witness ==
    /\ LastIs("switch_trunk")
    /\ last.result = "BranchNotTracked"
    /\ active_trunk \notin InitTrunks

-----------------------------------------------------------------------------
(* Migration (checked under MigrateSpec). *)

\* C18 (legacy migration): on a tree carrying both legacy fields, T and B,
\* migrate_if_needed stores [name T, branches B] under trunks[T], makes T the
\* active trunk, clears both legacy fields and leaves every other trunk alone.
C18_MigrationMovesLegacy ==
    (/\ LastIs("migrate_if_needed")
     /\ prev.trunk_name # None
     /\ prev.branches # << >>)
    => /\ DOMAIN trunks = DOMAIN prev.trunks \cup {prev.trunk_name}
       /\ trunks[prev.trunk_name] =
              [name |-> prev.trunk_name, branches |-> prev.branches[1]]
       /\ active_trunk = prev.trunk_name
       /\ legacy = LegacyDefault
       /\ \A tn \in DOMAIN prev.trunks \ {prev.trunk_name} : trunks[tn] = prev.trunks[tn]

\* C18 witness: a migration has replaced nothing but added the legacy trunk
\* next to a trunk that was already there, and the legacy map had a child.
C18_Witness ==
    /\ LastIs("migrate_if_needed")
    /\ prev.trunk_name # None
    /\ prev.branches # << >>
    /\ Cardinality(DOMAIN prev.branches[1]) > 1
    /\ DOMAIN prev.trunks \ {prev.trunk_name} # {}
    /\ prev.active_trunk # prev.trunk_name

\* C19 (migration is idempotent and a fixed point): after any application of
\* migrate_if_needed both legacy fields are absent, a further application
\* changes nothing, and saving and loading the tree gives the same tree.
C19_MigrationFixedPoint ==
    (LastIs("migrate_if_needed") \/ LastIs("save_reload")) =>
        /\ legacy = LegacyDefault
        /\ migrate_if_needed(FullTree) = FullTree
        /\ "trunk-name" \notin DOMAIN save(FullTree)
        /\ "branches" \notin DOMAIN save(FullTree)
        /\ store_load(save(FullTree)) = FullTree

\* C19 witness: a tree that carried both legacy fields has been migrated and
\* then saved and loaded again.
C19_Witness ==
    /\ LastIs("save_reload")
    /\ ops = 2
    /\ active_trunk \in DOMAIN trunks
    /\ Cardinality(DOMAIN trunks[active_trunk].branches) > 1
    /\ \E b \in DOMAIN trunks[active_trunk].branches :
           trunks[active_trunk].branches[b].remote # NoRemote

-----------------------------------------------------------------------------
(* submit (src/src/subcommands/remote/submit.rs).  The state of one run is  *)
(* the record run:                                                          *)
(*   pc            the position of the run                                  *)
(*   all           the --all flag                                           *)
(*   current       the branch checked out                                   *)
(*   ord           the iteration order of every children set                *)
(*   stack         branches_to_submit of SubmitCmd::run                     *)
(*   all_branches  the list submit_stack computes again                     *)
(*   k, i, j       positions in the pre-flight, push and comment loops      *)
(*   commit        the commit id of every local branch                      *)
(*   pulls         what the run has seen and made of the pull requests      *)
(*   origin        what the run has seen and made of the branches of origin *)
(*   next_pr, next_comment   the numbers the platform hands out next        *)
(*   events        the calls made to the repository and to the platform     *)
(*   err           the error the run failed with                            *)
(* What the run has not yet read of its environment is Unknown, and is      *)
(* chosen when the run first reads it.                                      *)

Unknown == "?"
NoErr == [kind |-> None, arg |-> None]

UnknownPull == [base |-> Unknown, sha |-> Unknown]
PullOf(pulls, n) == IF n \in DOMAIN pulls THEN pulls[n] ELSE UnknownPull
Seen(known, read) == IF known = Unknown THEN read ELSE known

Emit(r, op, branch, arg) ==
    [r EXCEPT !.events = Append(@, [op |-> op, branch |-> branch, arg |-> arg])]
Fail(r, kind, arg) == [r EXCEPT !.pc = "failed", !.err = [kind |-> kind, arg |-> arg]]

\* The chain of parents of b, from the root down to b: a parent that is
\* not tracked is a failed lookup, and on a cycle of parents the walk does
\* not end.
RECURSIVE UpChain(_, _, _)
UpChain(bs, b, depth) ==
    IF b \notin DOMAIN bs
    THEN [names |-> << >>, result |-> "BranchNotTracked", err |-> b]
    ELSE IF bs[b].parent = None
    THEN [names |-> <<b>>, result |-> "Ok", err |-> None]
    ELSE IF depth = 0
    THEN [names |-> << >>, result |-> "Diverges", err |-> b]
    ELSE LET up == UpChain(bs, bs[b].parent, depth - 1) IN
         IF up.result # "Ok" THEN up ELSE [up EXCEPT !.names = Append(@, b)]

\* StContext::discover_stack: the trunk, the chain down to the current
\* branch, then the subtree of the current branch, parents first.
discover_stack(t, current, ord) ==
    LET bs == active_branches(t)
        chain == UpChain(bs, current, Cardinality(DOMAIN bs))
        sub == fill_branches(bs, current, << >>, ord, Cardinality(DOMAIN bs))
    IN
    IF current = trunk_name(t) THEN branches(t, ord)
    ELSE IF chain.result # "Ok" THEN chain
    ELSE [sub EXCEPT !.names = SubSeq(chain.names, 1, Len(chain.names) - 1) \o @]

\* branches_to_submit of run, all_branches of submit_stack.
resolve_branches(t, r, ord) ==
    IF r.all THEN branches(t, ord) ELSE discover_stack(t, r.current, ord)

\* The first name of stack whose cached parent id is not the commit id of
\* its parent, None if there is none.
RECURSIVE FirstStale(_, _, _, _)
FirstStale(bs, stack, commit, n) ==
    IF n > Len(stack) THEN None
    ELSE IF /\ stack[n] \in DOMAIN bs
            /\ bs[stack[n]].parent # None
            /\ bs[stack[n]].parent_oid_cache # commit[bs[stack[n]].parent]
         THEN stack[n]
         ELSE FirstStale(bs, stack, commit, n + 1)

\* StContext::check_cleanliness
check_cleanliness(t, r, dirty) ==
    IF dirty THEN Fail(r, "WorkingTreeDirty", None)
    ELSE LET stale == FirstStale(active_branches(t), r.stack, r.commit, 1) IN
         IF stale # None THEN Fail(r, "NeedsRestack", stale) ELSE r

\* One branch of StContext::delete_closed_branches: the state of the pull
\* request of a branch with remote metadata is read; if it is closed or
\* merged and the user confirms, the branch is deleted from the tree.
delete_closed_branch(t, r, branch, env) ==
    LET bs == active_branches(t)
        next == [r EXCEPT !.k = @ + 1]
    IN
    IF branch \notin DOMAIN bs \/ bs[branch].remote = NoRemote
    THEN [tree |-> t, run |-> next]
    ELSE
    LET n == bs[branch].remote[1].pr_number
        asked == Emit(next, "pr_state", branch, n)
        d == delete(t, branch, env.order)
    IN
    IF env.fail = "pr_state" THEN [tree |-> t, run |-> Fail(asked, "Remote", "pr_state")]
    ELSE IF env.state # "closed" \/ ~env.confirm THEN [tree |-> t, run |-> asked]
    ELSE IF d.result # "Ok" THEN [tree |-> d.tree, run |-> Fail(asked, d.result, d.err)]
    ELSE [tree |-> d.tree, run |-> [asked EXCEPT !.deleted = @ + 1]]

\* The push loop moves to the next branch, past the last one to the
\* comment pass, and the comment pass past the last branch to the end.
AfterLoop(r) ==
    IF Len(r.stack) < 2 THEN [r EXCEPT !.pc = "done"] ELSE [r EXCEPT !.pc = "comments", !.j = 2]
Continue(r) ==
    IF r.i + 1 > Len(r.all_branches) THEN AfterLoop([r EXCEPT !.i = @ + 1])
    ELSE [r EXCEPT !.i = @ + 1]
ContinueComments(r) ==
    IF r.j + 1 > Len(r.stack) THEN [r EXCEPT !.j = @ + 1, !.pc = "done"]
    ELSE [r EXCEPT !.j = @ + 1]

\* A comparison of the head of the pull request with the local branch that
\* never finds them equal.
remote_never_synced(sha, commit_id) == FALSE

\* remote_synced of submit_stack (lines 152-159).
remote_synced(sha, commit_id) == sha = commit_id

\* submit_stack for a branch that has a pull request, without the update
\* of the base of the pull request.
submit_existing_keeps_base(t, r, branch, parent, env) ==
    LET n == active_branches(t)[branch].remote[1].pr_number
        pr == PullOf(r.pulls, n)
        base == Seen(pr.base, env.base)
        sha == Seen(pr.sha, env.sha)
        asked == Emit(r, "get_pr", branch, [pr |-> n, base |-> Unknown, sha |-> Unknown])
        got == [Emit(r, "get_pr", branch, [pr |-> n, base |-> base, sha |-> sha])
                   EXCEPT !.pulls = MapInsert(@, n, [pr EXCEPT !.base = base, !.sha = sha])]
        on_remote == IF parent \in DOMAIN r.origin THEN r.origin[parent] ELSE env.on_remote
        pushing == Emit([got EXCEPT !.origin = MapInsert(@, parent, on_remote)],
                        "push", branch, r.commit[branch])
        pushed == [pushing EXCEPT
                      !.pulls = MapInsert(@, n, [got.pulls[n] EXCEPT !.sha = r.commit[branch]]),
                      !.origin = MapInsert(@, branch, TRUE)]
    IN
    IF env.fail = "get_pr" THEN Fail(asked, "Remote", "get_pr")
    ELSE IF env.fail = "find_branch" THEN Fail(got, "BranchUnavailable", branch)
    ELSE IF remote_synced(sha, r.commit[branch]) THEN Continue(got)
    ELSE IF env.fail = "push" THEN Fail(pushing, "Git", "push")
    ELSE Continue(pushed)

\* submit_stack, a branch that has a pull request (lines 130-172).  The
\* push meets origin as it is: whether the parent is there, which this path
\* does not look up, is settled when the branch is pushed.
submit_existing(t, r, branch, parent, env) ==
    LET n == active_branches(t)[branch].remote[1].pr_number
        pr == PullOf(r.pulls, n)
        base == Seen(pr.base, env.base)
        sha == Seen(pr.sha, env.sha)
        asked == Emit(r, "get_pr", branch, [pr |-> n, base |-> Unknown, sha |-> Unknown])
        got == [Emit(r, "get_pr", branch, [pr |-> n, base |-> base, sha |-> sha])
                   EXCEPT !.pulls = MapInsert(@, n, [pr EXCEPT !.base = base, !.sha = sha])]
        updating == Emit(got, "update_base", branch, parent)
        updated == IF base # parent
                   THEN [updating EXCEPT !.pulls = MapInsert(@, n, [got.pulls[n] EXCEPT !.base = parent])]
                   ELSE got
        on_remote == IF parent \in DOMAIN r.origin THEN r.origin[parent] ELSE env.on_remote
        pushing == Emit([updated EXCEPT !.origin = MapInsert(@, parent, on_remote)],
                        "push", branch, r.commit[branch])
        pushed == [pushing EXCEPT
                      !.pulls = MapInsert(@, n, [updated.pulls[n] EXCEPT !.sha = r.commit[branch]]),
                      !.origin = MapInsert(@, branch, TRUE)]
    IN
    IF env.fail = "get_pr" THEN Fail(asked, "Remote", "get_pr")
    ELSE IF base # parent /\ env.fail = "update_base" THEN Fail(updating, "Remote", "update_base")
    ELSE IF env.fail = "find_branch" THEN Fail(updated, "BranchUnavailable", branch)
    ELSE IF remote_synced(sha, r.commit[branch]) THEN Continue(updated)
    ELSE IF env.fail = "push" THEN Fail(pushing, "Git", "push")
    ELSE Continue(pushed)

\* submit_stack, a branch that has no pull request yet (lines 173-221).
submit_new(t, r, branch, parent, env) ==
    LET on_remote == IF parent \in DOMAIN r.origin THEN r.origin[parent] ELSE env.on_remote
        looked == [r EXCEPT !.origin = MapInsert(@, parent, on_remote)]
        pushing == Emit(looked, "push", branch, r.commit[branch])
        pushed == [pushing EXCEPT !.origin = MapInsert(@, branch, TRUE)]
        creating == Emit(pushed, "create_pr", branch, [pr |-> r.next_pr, base |-> parent])
        created == [creating EXCEPT
                       !.pulls = MapInsert(@, r.next_pr,
                                     [base |-> parent, sha |-> r.commit[branch]]),
                       !.next_pr = @ + 1]
    IN
    IF ~on_remote
    THEN [tree |-> t, run |-> Fail(looked, "BaseBranchNotOnRemote", parent)]
    ELSE IF env.fail = "push" THEN [tree |-> t, run |-> Fail(pushing, "Git", "push")]
    ELSE IF env.fail = "prompt" THEN [tree |-> t, run |-> Fail(pushed, "Prompt", branch)]
    ELSE IF env.fail = "create_pr"
    THEN [tree |-> t, run |-> Fail(creating, "Remote", "create_pr")]
    ELSE [tree |-> set_remote(t, branch, r.next_pr).tree, run |-> Continue(created)]

\* An iteration whose error is dropped: the loop goes on to the next branch.
submit_branch_unpropagated(t, r, branch, env) ==
    LET bs == active_branches(t)
        out == IF branch \notin DOMAIN bs
               THEN [tree |-> t, run |-> Fail(r, "BranchNotTracked", branch)]
               ELSE IF bs[branch].parent = None
               THEN [tree |-> t, run |-> Fail(r, "BranchNotTracked", "Parent not found")]
               ELSE IF bs[branch].remote # NoRemote
               THEN [tree |-> t, run |-> submit_existing(t, r, branch, bs[branch].parent, env)]
               ELSE submit_new(t, r, branch, bs[branch].parent, env)
    IN
    IF out.run.pc = "failed"
    THEN [tree |-> out.tree, run |-> Continue([out.run EXCEPT !.pc = "loop"])]
    ELSE out

\* submit_stack, one iteration of the loop over all_branches.skip(1).
submit_branch(t, r, branch, env) ==
    LET bs == active_branches(t) IN
    IF branch \notin DOMAIN bs
    THEN [tree |-> t, run |-> Fail(r, "BranchNotTracked", branch)]
    ELSE IF bs[branch].parent = None
    THEN [tree |-> t, run |-> Fail(r, "BranchNotTracked", "Parent not found")]
    ELSE IF bs[branch].remote # NoRemote
    THEN [tree |-> t, run |-> submit_existing(t, r, branch, bs[branch].parent, env)]
    ELSE submit_new(t, r, branch, bs[branch].parent, env)

\* render_pr_comment: the lines of the list, one for every branch of
\* stack.skip(1).rev() that has remote metadata, then the trunk.
RECURSIVE RenderLines(_, _, _, _)
RenderLines(bs, current_branch, stack, n) ==
    IF n < 2 THEN [result |-> "Ok", err |-> None, lines |-> << >>]
    ELSE IF stack[n] \notin DOMAIN bs
    THEN [result |-> "BranchNotTracked", err |-> stack[n], lines |-> << >>]
    ELSE LET rest == RenderLines(bs, current_branch, stack, n - 1)
             line == IF bs[stack[n]].remote = NoRemote THEN << >>
                     ELSE <<[pr |-> bs[stack[n]].remote[1].pr_number,
                             marked |-> stack[n] = current_branch]>>
         IN  IF rest.result # "Ok" THEN rest
             ELSE [rest EXCEPT !.lines = line \o @]

render_pr_comment(t, current_branch, stack) ==
    LET r == RenderLines(active_branches(t), current_branch, stack, Len(stack)) IN
    IF r.result # "Ok" THEN r
    ELSE [r EXCEPT !.lines = Append(@, [trunk |-> trunk_name(t)])]

\* update_pr_comments, one iteration of the loop over stack.skip(1).
update_pr_comment_unrecorded(t, r, branch, env) ==
    LET bs == active_branches(t)
        rendered == render_pr_comment(t, branch, r.stack)
    IN
    IF branch \notin DOMAIN bs
    THEN [tree |-> t, run |-> Fail(r, "BranchNotTracked", branch)]
    ELSE IF bs[branch].remote = NoRemote
    THEN [tree |-> t, run |-> ContinueComments(r)]
    ELSE IF rendered.result # "Ok"
    THEN [tree |-> t, run |-> Fail(r, rendered.result, rendered.err)]
    ELSE
    LET remote_meta == bs[branch].remote[1]
        updating == Emit(r, "update_comment", branch,
                         [pr |-> remote_meta.pr_number, id |-> remote_meta.comment_id,
                          body |-> rendered.lines])
        creating == Emit(r, "create_comment", branch,
                         [pr |-> remote_meta.pr_number, id |-> <<r.next_comment>>,
                          body |-> rendered.lines])
    IN
    IF remote_meta.comment_id # << >>
    THEN [tree |-> t,
          run |-> IF env.fail = "update_comment"
                  THEN Fail(updating, "Remote", "update_comment")
                  ELSE ContinueComments(updating)]
    ELSE IF env.fail = "create_comment"
    THEN [tree |-> t, run |-> Fail(creating, "Remote", "create_comment")]
    ELSE [tree |-> t,
          run |-> ContinueComments([creating EXCEPT !.next_comment = @ + 1])]

update_pr_comment(t, r, branch, env) ==
    LET bs == active_branches(t)
        rendered == render_pr_comment(t, branch, r.stack)
    IN
    IF branch \notin DOMAIN bs
    THEN [tree |-> t, run |-> Fail(r, "BranchNotTracked", branch)]
    ELSE IF bs[branch].remote = NoRemote
    THEN [tree |-> t, run |-> ContinueComments(r)]
    ELSE IF rendered.result # "Ok"
    THEN [tree |-> t, run |-> Fail(r, rendered.result, rendered.err)]
    ELSE
    LET remote_meta == bs[branch].remote[1]
        updating == Emit(r, "update_comment", branch,
                         [pr |-> remote_meta.pr_number, id |-> remote_meta.comment_id,
                          body |-> rendered.lines])
        creating == Emit(r, "create_comment", branch,
                         [pr |-> remote_meta.pr_number, id |-> <<r.next_comment>>,
                          body |-> rendered.lines])
        recorded == WithActiveBranches(t,
                        [bs EXCEPT ![branch].remote[1].comment_id = <<r.next_comment>>])
    IN
    IF remote_meta.comment_id # << >>
    THEN [tree |-> t,
          run |-> IF env.fail = "update_comment"
                  THEN Fail(updating, "Remote", "update_comment")
                  ELSE ContinueComments(updating)]
    ELSE IF env.fail = "create_comment"
    THEN [tree |-> t, run |-> Fail(creating, "Remote", "create_comment")]
    ELSE [tree |-> recorded,
          run |-> ContinueComments([creating EXCEPT !.next_comment = @ + 1])]

-----------------------------------------------------------------------------
(* The state machine of submit: one run of SubmitCmd::run on a tree that    *)
(* earlier calls have built, some of its branches having a pull request.   *)

\* The commit id every insert of these trees has cached.
TreeOids == {"abc123"}

\* The trees one more successful insert or delete makes of t.
TreeCalls(t) ==
    {c.tree : c \in {x \in {insert(t, p, o, n) : p \in Names, o \in TreeOids, n \in Names} :
                        x.result = "Ok"}}
    \cup UNION {{c.tree : c \in {x \in {delete(t, b, order) : order \in DeleteOrders(t, b)} :
                                    x.result = "Ok"}} : b \in Names}

\* The trees at most n successful calls make of a new tree.
RECURSIVE TreesWithin(_)
TreesWithin(n) ==
    IF n = 0 THEN {tree_new(t) : t \in InitTrunks}
    ELSE LET S == TreesWithin(n - 1) IN S \cup UNION {TreeCalls(t) : t \in S}

NameIndex(b) == CHOOSE i \in 1..Len(NamePool) : NamePool[i] = b

\* Tree t, the branches of R having a pull request each, those of C with
\* its comment.
WithRemotes(t, R, C) ==
    WithActiveBranches(t,
        [b \in DOMAIN active_branches(t) |->
            IF b \in R
            THEN [active_branches(t)[b] EXCEPT
                     !.remote = <<[pr_number |-> NameIndex(b),
                                   comment_id |-> IF b \in C THEN <<NameIndex(b)>> ELSE << >>]>>]
            ELSE active_branches(t)[b]])

SubmitInitWithin(n) ==
    \E t \in TreesWithin(n) :
    \E R \in SUBSET (DOMAIN active_branches(t) \ {trunk_name(t)}) :
    \E C \in SUBSET R, all \in BOOLEAN, current \in DOMAIN active_branches(t) :
        /\ all => current = trunk_name(t)
        /\ active_trunk = t.active_trunk
        /\ trunks = WithRemotes(t, R, C).trunks
        /\ prev = WithRemotes(t, R, C)
        /\ last = [call |-> Call("submit", None, None, None), result |-> "Ok", err |-> None]
        /\ ops = 0
        /\ legacy = LegacyDefault
        /\ run = [pc |-> "resolve", all |-> all, current |-> current, ord |-> << >>,
                  stack |-> << >>, all_branches |-> << >>, k |-> 0, i |-> 0, j |-> 0,
                  dirty |-> << >>, commit |-> << >>, pulls |-> << >>, origin |-> << >>,
                  next_pr |-> Len(NamePool) + 1, next_comment |-> Len(NamePool) + 1,
                  deleted |-> 0, events |-> << >>, err |-> NoErr]

SubmitInit == SubmitInitWithin(MaxSubmitOps)

SubmitStep(t, r) ==
    /\ active_trunk' = t.active_trunk
    /\ trunks' = t.trunks
    /\ run' = r
    /\ UNCHANGED <<legacy, last, prev, ops>>

\* run, lines 35-42.
Resolve ==
    /\ run.pc = "resolve"
    /\ \E ord \in ChildOrders(active_branches(Tree)) :
           LET res == resolve_branches(Tree, run, ord) IN
           SubmitStep(Tree,
               IF res.result # "Ok" THEN Fail(run, res.result, res.err)
               ELSE [run EXCEPT !.pc = "pre_flight", !.stack = res.names, !.ord = ord])

\* pre_flight going on whatever check_cleanliness returns.
CheckCleanlinessUnpropagated ==
    /\ run.pc = "pre_flight"
    /\ \E dirty \in BOOLEAN, commit \in [Names -> Oids] :
           /\ \A b \in Names \ DOMAIN active_branches(Tree) : commit[b] \in TreeOids
           /\ LET c == [run EXCEPT !.commit = commit, !.dirty = <<dirty>>] IN
              SubmitStep(Tree,
                  IF Len(c.stack) < 2 THEN [c EXCEPT !.pc = "submit_stack"]
                  ELSE [c EXCEPT !.pc = "delete_closed", !.k = 2])

\* pre_flight, line 73.
CheckCleanliness ==
    /\ run.pc = "pre_flight"
    /\ \E dirty \in BOOLEAN, commit \in [Names -> Oids] :
           /\ \A b \in Names \ DOMAIN active_branches(Tree) : commit[b] \in TreeOids
           /\ LET c == check_cleanliness(Tree, [run EXCEPT !.commit = commit, !.dirty = <<dirty>>],
                                        dirty) IN
              SubmitStep(Tree,
                  IF c.pc = "failed" THEN c
                  ELSE IF Len(c.stack) < 2 THEN [c EXCEPT !.pc = "submit_stack"]
                  ELSE [c EXCEPT !.pc = "delete_closed", !.k = 2])

\* pre_flight, lines 76-81.
DeleteClosedBranch ==
    /\ run.pc = "delete_closed"
    /\ \E state \in {"open", "closed"}, confirm \in BOOLEAN, fail \in {"none", "pr_state"},
          order \in DeleteOrders(Tree, run.stack[run.k]) :
           LET out == delete_closed_branch(Tree, run, run.stack[run.k],
                          [state |-> state, confirm |-> confirm, fail |-> fail,
                           order |-> order])
           IN  SubmitStep(out.tree,
                   IF out.run.pc # "failed" /\ out.run.k > Len(out.run.stack)
                   THEN [out.run EXCEPT !.pc = "submit_stack"]
                   ELSE out.run)

\* submit_stack with a loop over all_branches that does not skip its first
\* element.
BeginStackNoSkip ==
    /\ run.pc = "submit_stack"
    /\ \E ord \in ChildOrders(active_branches(Tree)) :
           /\ \A b \in DOMAIN ord :
                  (/\ b \in DOMAIN active_branches(prev)
                   /\ active_branches(prev)[b].children = active_branches(Tree)[b].children)
                  => ord[b] = run.ord[b]
           /\ LET res == resolve_branches(Tree, run, ord)
                  r == [run EXCEPT !.pc = "loop", !.all_branches = res.names, !.i = 1,
                                   !.ord = ord]
              IN  SubmitStep(Tree,
                      IF res.result # "Ok" THEN Fail(run, res.result, res.err)
                      ELSE IF Len(res.names) < 1 THEN AfterLoop(r)
                      ELSE r)

\* submit_stack, lines 104-108: the list is computed again, a children set
\* the pre-flight has not changed being iterated in the order it had.
BeginStack ==
    /\ run.pc = "submit_stack"
    /\ \E ord \in ChildOrders(active_branches(Tree)) :
           /\ \A b \in DOMAIN ord :
                  (/\ b \in DOMAIN active_branches(prev)
                   /\ active_branches(prev)[b].children = active_branches(Tree)[b].children)
                  => ord[b] = run.ord[b]
           /\ LET res == resolve_branches(Tree, run, ord)
                  r == [run EXCEPT !.pc = "loop", !.all_branches = res.names, !.i = 2,
                                   !.ord = ord]
              IN  SubmitStep(Tree,
                      IF res.result # "Ok" THEN Fail(run, res.result, res.err)
                      ELSE IF Len(res.names) < 2 THEN AfterLoop(r)
                      ELSE r)

\* submit_stack, lines 111-222.
SubmitBranch ==
    /\ run.pc = "loop"
    /\ \E fail \in {"none", "get_pr", "update_base", "find_branch", "push", "prompt",
                    "create_pr"},
          base \in Names, sha \in Oids, on_remote \in BOOLEAN :
           LET out == submit_branch(Tree, run, run.all_branches[run.i],
                          [fail |-> fail, base |-> base, sha |-> sha,
                           on_remote |-> on_remote])
           IN  SubmitStep(out.tree, out.run)

\* update_pr_comments, lines 234-271.
UpdatePrComment ==
    /\ run.pc = "comments"
    /\ \E fail \in {"none", "update_comment", "create_comment"} :
           LET out == update_pr_comment(Tree, run, run.stack[run.j], [fail |-> fail])
           IN  SubmitStep(out.tree, out.run)

SubmitNext ==
    \/ Resolve
    \/ CheckCleanliness
    \/ DeleteClosedBranch
    \/ BeginStack
    \/ SubmitBranch
    \/ UpdatePrComment

SubmitSpec == SubmitInit /\ [][SubmitNext]_vars

-----------------------------------------------------------------------------
(* Submit invoked again: the command has exited and the user runs it once   *)
(* more.  The tree the next run loads is the one the last successful exit   *)
(* saved; what the runs did on the remote stays done.                       *)

ResubmitInit == SubmitInitWithin(MaxResubmitOps)

\* What the log keeps of a run that has ended: the pull requests and the
\* comments it created, and how it ended.
Created(r) ==
    SelectSeq(r.events,
        LAMBDA e : \/ e.op = "exit"
                   \/ e.op = "create_pr" /\ e.arg.pr \in DOMAIN r.pulls
                   \/ e.op = "create_comment" /\ e.arg.id[1] < r.next_comment)
    \o <<[op |-> "exit", branch |-> None, arg |-> r.pc]>>

\* The exit of the command and its next invocation: a run that ended well
\* has saved its tree, a run that failed has left the saved tree as it was.
\* The next run finds the working copy and the remote as they are by then.
Reinvoke ==
    /\ run.pc \in {"done", "failed"}
    /\ ops + 1 < MaxRuns
    /\ ops' = ops + 1
    /\ LET saved == IF run.pc = "done" THEN Tree ELSE prev IN
       /\ active_trunk' = saved.active_trunk
       /\ trunks' = saved.trunks
       /\ prev' = saved
    /\ run' = [run EXCEPT
                  !.pc = "resolve", !.ord = << >>, !.stack = << >>,
                  !.all_branches = << >>, !.k = 0, !.i = 0, !.j = 0, !.deleted = 0,
                  !.dirty = << >>, !.commit = << >>, !.pulls = << >>, !.origin = << >>,
                  !.events = Created(run), !.err = NoErr]
    /\ UNCHANGED <<legacy, last>>

ResubmitNext ==
    \/ SubmitNext
    \/ Reinvoke

ResubmitSpec == ResubmitInit /\ [][ResubmitNext]_vars

-----------------------------------------------------------------------------
(* The restack engine: the branches of the active trunk are traversed in    *)
(* the order of branches(), and a branch whose cached parent commit id is   *)
(* not the commit id of its parent is rebased onto it.                      *)

\* One branch of the restack traversal (spec 4.5, steps 1-4): the trunk is
\* passed over; a branch whose cache is the commit id of its parent is
\* skipped; otherwise it is rebased, upstream its old cache, onto the commit
\* id of its parent, which gives the branch a commit id of its own, and the
\* cache is set.
restack_branch(t, r, branch, env) ==
    LET bs == active_branches(t)
        next == [r EXCEPT !.i = @ + 1, !.pc = IF r.i + 1 > Len(r.list) THEN "done" ELSE "loop"]
    IN
    IF branch \notin DOMAIN bs
    THEN [tree |-> t, run |-> Fail(r, "BranchNotTracked", branch)]
    ELSE IF branch = trunk_name(t) \/ bs[branch].parent = None
    THEN [tree |-> t, run |-> next]
    ELSE
    LET old == bs[branch].parent_oid_cache
        new == r.commit[bs[branch].parent]
    IN
    IF old = new THEN [tree |-> t, run |-> next]
    ELSE IF old = None
    THEN [tree |-> t, run |-> Fail(r, "MissingParentOidCache", branch)]
    ELSE IF env.conflict
    THEN [tree |-> t, run |-> Fail(r, "RebaseConflict", branch)]
    ELSE [tree |-> WithActiveBranches(t, [bs EXCEPT ![branch].parent_oid_cache = new]),
          run |-> [next EXCEPT
                      !.commit[branch] = env.oid,
                      !.rebases = Append(@, [branch |-> branch, upstream |-> old,
                                             new_base |-> new])]]

\* A restack run is about to start on a tree that earlier calls have built,
\* every branch of the repository at some commit.
RestackInit ==
    \E t \in TreesWithin(MaxRestackOps), commit \in [Names -> Oids] :
        /\ \A b \in Names \ DOMAIN active_branches(t) : commit[b] \in TreeOids
        /\ active_trunk = t.active_trunk
        /\ trunks = t.trunks
        /\ prev = t
        /\ last = [call |-> Call("restack", None, None, None), result |-> "Ok", err |-> None]
        /\ ops = 0
        /\ legacy = LegacyDefault
        /\ run = [pc |-> "restack", list |-> << >>, i |-> 0, commit |-> commit,
                  rebases |-> << >>, err |-> NoErr]

\* The traversal order is taken from branches(); a descent that never
\* returns leaves the run without an end.
BeginRestack ==
    /\ run.pc = "restack"
    /\ \E ord \in ChildOrders(active_branches(Tree)) :
           LET res == branches(Tree, ord) IN
           SubmitStep(Tree,
               IF res.result = "StackOverflow" THEN [run EXCEPT !.pc = "diverged"]
               ELSE IF res.result # "Ok" THEN Fail(run, res.result, res.err)
               ELSE [run EXCEPT !.pc = "loop", !.list = res.names, !.i = 1])

RestackBranch ==
    /\ run.pc = "loop"
    /\ \E conflict \in BOOLEAN, oid \in Oids :
           LET out == restack_branch(Tree, run, run.list[run.i],
                                     [conflict |-> conflict, oid |-> oid])
           IN  SubmitStep(out.tree, out.run)

\* Restack is run again right after a run that ended well, no branch head
\* having moved in between.
RestackAgain ==
    /\ run.pc = "done"
    /\ ops + 1 < MaxRestackRuns
    /\ ops' = ops + 1
    /\ prev' = Tree
    /\ run' = [run EXCEPT !.pc = "restack", !.list = << >>, !.i = 0, !.rebases = << >>]
    /\ UNCHANGED <<active_trunk, trunks, legacy, last>>

RestackNext ==
    \/ BeginRestack
    \/ RestackBranch
    \/ RestackAgain

RestackSpec == RestackInit /\ [][RestackNext]_vars

-----------------------------------------------------------------------------
(* The `trunk` subcommand: each command runs on the tree the one before it  *)
(* left, and the process exits with the status main gives its result.       *)

\* The answers inquire::Confirm can return: an explicit yes or no, the
\* default taken with the return key, or a failed prompt.
Answers == {"yes", "no", "default", "error"}

\* main (main.rs 17-23): the exit status of the process.
main_exit(result) == IF result = "Ok" THEN 0 ELSE 1

\* TrunkCmd::switch
trunk_switch(t, name) == switch_trunk(t, name)

\* TrunkCmd::add; `exists` says whether find_branch finds the local branch.
trunk_add(t, name, exists) ==
    IF ~exists THEN Ok(t) ELSE Ok(add_trunk(t, name))

\* TrunkCmd::remove with a prompt whose default answer is yes.
trunk_remove_default_yes(t, name, answer) ==
    IF answer = "error" THEN Err(t, "Prompt", name)
    ELSE IF answer = "no" THEN Ok(t)
    ELSE remove_trunk(t, name)

\* TrunkCmd::remove; the prompt has with_default(false).
trunk_remove(t, name, answer) ==
    IF answer = "error" THEN Err(t, "Prompt", name)
    ELSE IF answer \in {"no", "default"} THEN Ok(t)
    ELSE remove_trunk(t, name)

TrunkInit ==
    \E t \in InitTrunks :
        /\ active_trunk = t
        /\ trunks = tree_new(t).trunks
        /\ prev = TreeDefault
        /\ last = [call |-> Call("new", t, None, None), result |-> "Ok", err |-> None]
        /\ ops = 0
        /\ legacy = LegacyDefault
        /\ run = [pc |-> "exited", status |-> 0]

\* A command has run: its outcome, the tree before it and the exit status.
ApplyCmd(call, out) ==
    /\ ops < MaxCmds
    /\ active_trunk' = out.tree.active_trunk
    /\ trunks' = out.tree.trunks
    /\ last' = [call |-> call, result |-> out.result, err |-> out.err]
    /\ prev' = Tree
    /\ ops' = ops + 1
    /\ run' = [pc |-> "exited", status |-> main_exit(out.result)]
    /\ UNCHANGED legacy

TrunkSwitch ==
    \E n \in Names : ApplyCmd(Call("trunk_switch", n, None, None), trunk_switch(Tree, n))

TrunkAdd ==
    \E n \in Names, exists \in BOOLEAN :
        ApplyCmd(Call("trunk_add", n, exists, None), trunk_add(Tree, n, exists))

TrunkRemove ==
    \E n \in Names, answer \in Answers :
        ApplyCmd(Call("trunk_remove", n, answer, None), trunk_remove(Tree, n, answer))

TrunkNext ==
    \/ TrunkSwitch
    \/ TrunkAdd
    \/ TrunkRemove

TrunkSpec == TrunkInit /\ [][TrunkNext]_vars

-----------------------------------------------------------------------------
(* Submit (checked under SubmitSpec). *)

Pushes == {n \in DOMAIN run.events : run.events[n].op = "push"}

\* C20 (the trunk is never pushed): in every run, with or without --all, no
\* push_branch call names the active trunk; the submit slice and the list of
\* the push loop begin with the trunk, and the loop starts at the second
\* element.
C20_TrunkNeverPushed ==
    /\ \A n \in Pushes : run.events[n].branch # active_trunk
    /\ Len(run.stack) > 0 => run.stack[1] = active_trunk
    /\ run.pc = "loop" => (run.i >= 2 /\ run.all_branches[1] = active_trunk)

\* C20 witness: a run without --all has pushed two branches and ended well.
C20_Witness ==
    /\ run.pc = "done"
    /\ ~run.all
    /\ Cardinality(Pushes) >= 2

LastEvent == run.events[Len(run.events)]
EventsOf(b, kinds) ==
    {n \in DOMAIN run.events : run.events[n].branch = b /\ run.events[n].op \in kinds}
ParentOf(b) == active_branches(Tree)[b].parent
OnRemote(b) == b \in DOMAIN run.origin /\ run.origin[b]

\* C21 (the base is on the remote first): when a branch is pushed or its
\* pull request is created, origin has the branch of its parent; and a run
\* that fails with BaseBranchNotOnRemote(p) fails at a branch without a pull
\* request whose parent p origin does not have, having neither pushed that
\* branch nor created a pull request for it.
C21_ParentOnRemote ==
    /\ (run.events # << >> /\ LastEvent.op \in {"push", "create_pr"})
           => OnRemote(ParentOf(LastEvent.branch))
    /\ (run.pc = "failed" /\ run.err.kind = "BaseBranchNotOnRemote")
           => LET b == run.all_branches[run.i] IN
              /\ active_branches(Tree)[b].remote = NoRemote
              /\ run.err.arg = ParentOf(b)
              /\ ~OnRemote(ParentOf(b))
              /\ EventsOf(b, {"push", "create_pr"}) = {}

LoopOps == {"get_pr", "update_base", "push", "create_pr"}

\* C22 (parent before child): for every branch b of the list of the push
\* loop whose parent p is a branch of that list other than the trunk, p
\* comes before b in the list, and every call the loop makes for p comes
\* before every call it makes for b.
C22_ParentBeforeChild ==
    \A y \in 2..Len(run.all_branches) :
        LET b == run.all_branches[y] IN
        (/\ b \in DOMAIN active_branches(Tree)
         /\ ParentOf(b) # active_trunk
         /\ ParentOf(b) \in Range(run.all_branches))
        => /\ \E x \in 2..(y - 1) : run.all_branches[x] = ParentOf(b)
           /\ \A n \in EventsOf(b, LoopOps), m \in EventsOf(ParentOf(b), LoopOps) : m < n

\* C23 (the base is updated before the push): when the pull request fetched
\* for a branch has a base that is not the parent of the branch, the next
\* call of the run is the update of the base to the parent, before any push
\* of the branch, and once the update is done the pull request has that base.
C23_BaseUpdateBeforePush ==
    \A n \in DOMAIN run.events :
        LET e == run.events[n] IN
        (/\ e.op = "get_pr"
         /\ e.arg.base \notin {Unknown, ParentOf(e.branch)})
        => /\ n < Len(run.events)
           /\ run.events[n + 1].op = "update_base"
           /\ run.events[n + 1].branch = e.branch
           /\ run.events[n + 1].arg = ParentOf(e.branch)
           /\ (n + 1 < Len(run.events) \/ run.pc # "failed")
                  => run.pulls[e.arg.pr].base = ParentOf(e.branch)

\* C23 witness: a pull request had another base than the parent of its
\* branch, the base was updated, the branch was pushed and the run ended
\* well.
C23_Witness ==
    /\ run.pc = "done"
    /\ \E n \in DOMAIN run.events :
           /\ run.events[n].op = "get_pr"
           /\ run.events[n].arg.base \notin {Unknown, ParentOf(run.events[n].branch)}
           /\ n + 2 <= Len(run.events)
           /\ run.events[n + 2].op = "push"
           /\ run.events[n + 2].branch = run.events[n].branch

\* The branches of the submit slice that are tracked with remote metadata.
Submitted ==
    {b \in Range(run.stack) \cap DOMAIN active_branches(Tree) :
        active_branches(Tree)[b].remote # NoRemote}
PrOf(b) == active_branches(Tree)[b].remote[1].pr_number

\* C24 (the remote agrees after a successful run): when a run has ended
\* well, the pull request of every branch of the slice that has remote
\* metadata has the parent of the branch as its base and the commit id of
\* the local branch as its head.
C24_RemoteAgrees ==
    run.pc = "done" =>
        \A b \in Submitted :
            /\ PrOf(b) \in DOMAIN run.pulls
            /\ run.pulls[PrOf(b)].base = ParentOf(b)
            /\ run.pulls[PrOf(b)].sha = run.commit[b]

\* C24 witness: a run has ended well after it updated the base of one pull
\* request and created another.
C24_Witness ==
    /\ run.pc = "done"
    /\ \E b, c \in Submitted :
           /\ EventsOf(b, {"update_base"}) # {}
           /\ EventsOf(b, {"push"}) # {}
           /\ EventsOf(c, {"create_pr"}) # {}

\* Everything is current: every branch of the slice but the trunk had its
\* pull request when the run began, and every pull request the run has
\* fetched had the parent of its branch as base and the commit id of the
\* local branch as head.
AllCurrent ==
    /\ \A y \in 2..Len(run.stack) :
           /\ run.stack[y] \in DOMAIN active_branches(Tree) \cap DOMAIN active_branches(prev)
           /\ active_branches(prev)[run.stack[y]].remote # NoRemote
    /\ \A n \in DOMAIN run.events :
           (run.events[n].op = "get_pr" /\ run.events[n].arg.base # Unknown)
           => /\ run.events[n].arg.base = ParentOf(run.events[n].branch)
              /\ run.events[n].arg.sha = run.commit[run.events[n].branch]

\* C25 (a run on a current stack changes nothing but comments): when
\* everything is current the run pushes no branch, creates no pull request
\* and updates no base.
C25_CurrentRunOnlyComments ==
    AllCurrent =>
        \A n \in DOMAIN run.events :
            run.events[n].op \notin {"push", "create_pr", "update_base"}

\* C25 witness: a run on a current stack of two branches has fetched both
\* pull requests, made comment calls and ended well.
C25_Witness ==
    /\ run.pc = "done"
    /\ AllCurrent
    /\ Cardinality({run.events[n].branch : n \in {m \in DOMAIN run.events :
                                                    run.events[m].op = "get_pr"}}) >= 2
    /\ \E n \in DOMAIN run.events : run.events[n].op \in {"create_comment", "update_comment"}

\* The runs that have exited, by how they ended.
Exits(pc) == {n \in DOMAIN run.events : run.events[n].op = "exit" /\ run.events[n].arg = pc}

\* The calls of the log that created a pull request.
CreatedPr ==
    {n \in DOMAIN run.events :
        /\ run.events[n].op = "create_pr"
        /\ \/ \E x \in Exits("done") \cup Exits("failed") : n < x
           \/ run.events[n].arg.pr \in DOMAIN run.pulls}

\* C26 (a run after an aborted one creates no second pull request): once a
\* pull request has been created for a branch, no later call asks the
\* platform to create one for that branch again.
C26_NoSecondPullRequest ==
    \A m \in CreatedPr, n \in DOMAIN run.events :
        (m < n /\ run.events[n].op = "create_pr")
        => run.events[m].branch # run.events[n].branch

\* C26 witness: a run that created a pull request has failed, and submit is
\* running again.
C26_Witness ==
    \E m \in CreatedPr, x \in Exits("failed") : m < x /\ run.pc = "loop"

\* C27 (dirty pre-flight): when the working copy has uncommitted changes the
\* run fails with WorkingTreeDirty, and it has made no call to the platform
\* and no push.
C27_DirtyFailsFirst ==
    run.dirty = <<TRUE>> =>
        /\ run.pc = "failed"
        /\ run.err.kind = "WorkingTreeDirty"
        /\ run.events = << >>

\* C27 witness: a run on a stack with a pull request found the working copy
\* dirty.
C27_Witness ==
    /\ run.dirty = <<TRUE>>
    /\ \E y \in 2..Len(run.stack) :
           /\ run.stack[y] \in DOMAIN active_branches(Tree)
           /\ active_branches(Tree)[run.stack[y]].remote # NoRemote

\* The places of the slice whose branch has a cached parent commit id other
\* than the commit id of its parent.
StalePlaces ==
    {y \in DOMAIN run.stack :
        /\ run.stack[y] \in DOMAIN active_branches(prev)
        /\ active_branches(prev)[run.stack[y]].parent # None
        /\ active_branches(prev)[run.stack[y]].parent_oid_cache
               # run.commit[active_branches(prev)[run.stack[y]].parent]}

\* C28 (stale-cache pre-flight): when the working copy is clean and a branch
\* of the slice has a stale cache, the run fails with NeedsRestack of the
\* first such branch of the slice, without a push or a pull request created.
C28_StaleFailsFirst ==
    (run.dirty = <<FALSE>> /\ StalePlaces # {}) =>
        /\ run.pc = "failed"
        /\ run.err.kind = "NeedsRestack"
        /\ \E y \in StalePlaces :
               /\ run.err.arg = run.stack[y]
               /\ \A z \in StalePlaces : y <= z
        /\ run.events = << >>

\* C28 witness: two branches of the slice are stale and the run has failed
\* on the first.
C28_Witness ==
    /\ run.dirty = <<FALSE>>
    /\ Cardinality({run.stack[y] : y \in StalePlaces}) >= 2
    /\ run.pc = "failed"

\* The calls of the log that created a comment.
CreatedComments ==
    {n \in DOMAIN run.events :
        /\ run.events[n].op = "create_comment"
        /\ run.events[n].arg.id[1] < run.next_comment}

\* The calls of the log made by the run that has not exited yet.
ThisRun == {n \in DOMAIN run.events : \A x \in Exits("done") \cup Exits("failed") : x < n}

\* C29 (the stack-overview comment is maintained in place): an update goes
\* to the comment whose id the branch holds, on the pull request of the
\* branch; a comment created is recorded on the branch; and as long as no
\* run has failed, no pull request has had two comments created.
C29_CommentInPlace ==
    /\ \A n \in ThisRun :
           run.events[n].op = "update_comment"
           => /\ run.events[n].arg.id # << >>
              /\ run.events[n].branch \in DOMAIN active_branches(Tree)
              /\ active_branches(Tree)[run.events[n].branch].remote
                     = <<[pr_number |-> run.events[n].arg.pr,
                          comment_id |-> run.events[n].arg.id]>>
    /\ \A n \in ThisRun \cap CreatedComments :
           /\ run.events[n].branch \in DOMAIN active_branches(Tree)
           /\ active_branches(Tree)[run.events[n].branch].remote
                  = <<[pr_number |-> run.events[n].arg.pr,
                       comment_id |-> run.events[n].arg.id]>>
    /\ Exits("failed") = {}
       => \A m, n \in CreatedComments :
              m # n => run.events[m].arg.pr # run.events[n].arg.pr

\* C29 witness: a run created the comment of a pull request and ended
\* well, and the next run has updated that comment.
C29_Witness ==
    /\ Exits("failed") = {}
    /\ \E m \in CreatedComments, n \in ThisRun :
           /\ m \notin ThisRun
           /\ run.events[n].op = "update_comment"
           /\ run.events[n].arg.pr = run.events[m].arg.pr
           /\ run.events[n].arg.id = run.events[m].arg.id

\* The calls of the comment pass.
CommentCalls ==
    {n \in DOMAIN run.events : run.events[n].op \in {"create_comment", "update_comment"}}

\* C30 (the comment pass comes after the whole push loop): no comment call
\* precedes a call of the push loop; when a comment call has been made the
\* loop has gone through every branch of its list and each has its pull
\* request; and a run that failed before the comment pass made no comment
\* call.
C30_CommentsAfterLoop ==
    /\ \A m \in CommentCalls, n \in DOMAIN run.events :
           run.events[n].op \in LoopOps => n < m
    /\ CommentCalls # {}
       => /\ run.i > Len(run.all_branches)
          /\ \A y \in 2..Len(run.all_branches) :
                 /\ run.all_branches[y] \in DOMAIN active_branches(Tree)
                 /\ active_branches(Tree)[run.all_branches[y]].remote # NoRemote
    /\ (run.pc = "failed" /\ run.j = 0) => CommentCalls = {}

\* C30 witness: a run pushed one branch and created the pull request of
\* another, then made a comment call for each.
C30_Witness ==
    \E b, c \in Names :
        /\ b # c
        /\ EventsOf(b, {"push"}) # {} /\ EventsOf(b, {"create_pr"}) = {}
        /\ EventsOf(c, {"create_pr"}) # {}
        /\ EventsOf(b, {"create_comment", "update_comment"}) # {}
        /\ EventsOf(c, {"create_comment", "update_comment"}) # {}

\* The places of the slice, the trunk's aside, whose branch has a pull
\* request.
WithPr == {y \in 2..Len(run.stack) : run.stack[y] \in DOMAIN active_branches(Tree)
                                       /\ active_branches(Tree)[run.stack[y]].remote # NoRemote}

\* The branches of those places.
ListedBranches == {run.stack[y] : y \in WithPr}

\* C31 (the rendered comment): the body sent for branch c ends with the name
\* of the active trunk; before it stands one line for each branch of the
\* slice that has a pull request, each once and none else, a branch later
\* in the slice on an earlier line; the line of c, and only it, is marked.
C31_RenderedList ==
    \A n \in CommentCalls :
        LET body == run.events[n].arg.body
            c == run.events[n].branch
            k == Len(body) - 1
        IN  /\ k >= 0
            /\ body[k + 1] = [trunk |-> active_trunk]
            /\ \A b \in ListedBranches :
                   Cardinality({x \in 1..k : body[x].pr = PrOf(b)}) = 1
            /\ \A x \in 1..k :
                   /\ \E b \in ListedBranches : body[x].pr = PrOf(b)
                   /\ body[x].marked <=> (body[x].pr = PrOf(c))
            /\ \A x, z \in 1..k :
                   x < z => \E y, w \in WithPr :
                                /\ y > w
                                /\ PrOf(run.stack[y]) = body[x].pr
                                /\ PrOf(run.stack[w]) = body[z].pr
            /\ Cardinality({x \in 1..k : body[x].marked}) = 1

\* The rebases the run has made of branch b, by their place in the log.
RebasesOf(b) == {n \in DOMAIN run.rebases : run.rebases[n].branch = b}

\* C32 (caches after a successful restack): when a restack run has ended
\* well, the cache of every tracked branch of the active trunk but the trunk
\* is the commit id of its parent; the first rebase of a branch had the cache
\* the branch came with as upstream, and its last rebase was onto the commit
\* id its parent has at the end of the run.
C32_CachesFresh ==
    run.pc = "done" =>
        \A b \in DOMAIN active_branches(Tree) \ {active_trunk} :
            /\ active_branches(Tree)[b].parent_oid_cache = run.commit[ParentOf(b)]
            /\ \A n \in RebasesOf(b) :
                   /\ (\A m \in RebasesOf(b) : n <= m)
                      => run.rebases[n].upstream = active_branches(prev)[b].parent_oid_cache
                   /\ (\A m \in RebasesOf(b) : m <= n)
                      => run.rebases[n].new_base = run.commit[ParentOf(b)]

\* C33 (restack is idempotent): a run made right after a run that ended
\* well rebases nothing and leaves the tree as it found it.
C33_SecondRunNoOp ==
    ops >= 1 => /\ run.rebases = << >>
                /\ Tree = prev
                /\ run.pc \in {"restack", "loop", "done"}

\* C34 (trunk remove confirms with the safe default): when the answer is no
\* or the default, the command succeeds and the tree is as before; the tree
\* changes only after an explicit yes, and then by remove_trunk.
C34_RemoveConfirms ==
    last.call.op = "trunk_remove" =>
        /\ last.call.a2 \in {"no", "default"}
           => /\ Tree = prev
              /\ last.result = "Ok"
              /\ run.status = 0
        /\ Tree # prev => last.call.a2 = "yes"
        /\ last.call.a2 = "yes" => Tree = remove_trunk(prev, last.call.a1).tree

\* C34 witness: the removal of a trunk that is present and not active was
\* answered with the default.
C34_Witness ==
    /\ last.call.op = "trunk_remove"
    /\ last.call.a2 = "default"
    /\ last.call.a1 \in DOMAIN prev.trunks
    /\ last.call.a1 # prev.active_trunk

\* C35 (trunk add of a name that is no local branch fails): the command's
\* result is an error, the exit status is not zero, and the tree is as
\* before.
C35_AddMissingBranchFails ==
    (last.call.op = "trunk_add" /\ last.call.a2 = FALSE) =>
        /\ last.result # "Ok"
        /\ run.status # 0
        /\ Tree = prev

\* C36 (the comment pass finds every branch it looks up): a run never fails
\* in its comment pass with BranchNotTracked, whether or not the pre-flight
\* has deleted branches.
C36_CommentPassTracked ==
    (run.pc = "failed" /\ run.j >= 2) => run.err.kind # "BranchNotTracked"

\* C37 (branches() terminates): on every tree the calls reach, the descent
\* of branches() through the children sets returns, whatever the order in
\* which the sets are iterated.
C37_BranchesTerminates ==
    \A res \in BranchesResults(Tree) : res.result # "StackOverflow"

\* C38 (a failed delete changes nothing): when delete returns an error the
\* tree is the tree before the call.
C38_DeleteErrorNoChange ==
    (last.call.op = "delete" /\ last.result \notin {"Ok", "Panic"}) => Tree = prev

====
